---- MODULE Spec2Model ----
(***************************************************************************)
(* arp-gmail: a shared library whose exported functions sendmail, about,   *)
(* routes and free are called by a host process, possibly from several     *)
(* threads.  The model follows src/src/lib.rs: each host thread runs one   *)
(* exported call at a time; sendmail is split at the points where it reads *)
(* or writes state shared between threads (the Lazy cell SMTP_CLIENT, the  *)
(* heap of CString buffers) and at its early returns.                      *)
(***************************************************************************)
EXTENDS Integers, Sequences, FiniteSets

\* ------------------------------------------------------------------ bounds
NumThreads == 2
MaxAddr == 2
MaxCalls == 2
MaxEdits == 1

Threads == 1..NumThreads
Addrs == 1..MaxAddr
NULL == 0

\* --------------------------------------------------------- request inputs
\* Values of the content-type header as headers.get sees
\* them; <absent> stands for None.
JsonType == "application/json"
ContentTypes == {"<absent>", JsonType, "text/plain", "application/json; charset=utf-8"}

\* Field values of a decoded Mail.  The empty string is the only value
\* String::is_empty accepts; not-an-address has no at sign and is refused by
\* the Mailbox parser.
AddrValues == {"", "not-an-address", "a@x.com"}
TextValues == {"", "Hi"}

Mails == [from : AddrValues, to : AddrValues, subject : TextValues, message : TextValues]

\* Body texts: a JSON object holding the four required strings, a JSON
\* object without the subject key, and a text that is no JSON.
Bodies == [kind : {"mail"}, mail : Mails] \cup {[kind |-> "no_subject_key"], [kind |-> "not_json"]}

GoodMail == [from |-> "a@x.com", to |-> "a@x.com", subject |-> "Hi", message |-> "Hi"]
GoodBody == [kind |-> "mail", mail |-> GoodMail]

\* The requests the host sends.  Null handles and non-JSON content types
\* are paired with a well-formed body, so that only the handle or the
\* header decides the outcome.
Requests ==
    {[headersNull |-> hn, bodyNull |-> bn, ctype |-> JsonType, body |-> GoodBody] :
        <<hn, bn>> \in {<<TRUE, FALSE>>, <<FALSE, TRUE>>, <<TRUE, TRUE>>}}
    \cup
    {[headersNull |-> FALSE, bodyNull |-> FALSE, ctype |-> c, body |-> GoodBody] :
        c \in ContentTypes \ {JsonType}}
    \cup
    {[headersNull |-> FALSE, bodyNull |-> FALSE, ctype |-> JsonType, body |-> b] :
        b \in Bodies}

NoRequest == [headersNull |-> TRUE, bodyNull |-> TRUE, ctype |-> "<absent>", body |-> [kind |-> "not_json"]]

\* ------------------------------------------------------ configuration file
\* What the initializer of SMTP_CLIENT finds when it runs.
ConfigFaults == {"no_plugins_dir", "no_config_file", "unreadable", "malformed_json"}
Settings == {[username |-> "u1", password |-> "p1", server |-> "smtp.gmail.com"],
             [username |-> "u2", password |-> "p2", server |-> "smtp.gmail.com"]}
NoSettings == [username |-> "", password |-> "", server |-> ""]
GoodConfigs == {[fault |-> "", json |-> c] : c \in Settings}
BadConfigs == {[fault |-> f, json |-> NoSettings] : f \in ConfigFaults}
Configs == BadConfigs \cup GoodConfigs

\* Errors mailer.send can return, and the acknowledgement of a success.
SmtpErrors == {"network", "authentication"}
SmtpOutcomes == {"ok"} \cup SmtpErrors

VARIABLES
    pc,          \* pc[t]: where thread t is in its current call
    op,          \* op[t]: the exported function of t's current or last call
    req,         \* req[t]: arguments of t's sendmail call
    response,    \* response[t]: the local response of sendmail
    result,      \* result[t]: what t's last call returned
    parses,      \* parses[t]: serde_json::from_str runs in t's call
    attempts,    \* attempts[t]: mailer.send runs in t's call
    relays,      \* relays[t]: SmtpTransport::relay runs in t's call
    seen,        \* seen[t]: the settings t read through SMTP_CLIENT
    smtp,        \* smtp[t]: what mailer.send returned to t
    cellState,   \* state of the OnceCell inside SMTP_CLIENT
    cellValue,   \* the value stored in the cell
    initFn,      \* TRUE while the Lazy still holds its init closure
    configReads, \* times the initializer looked at the configuration
    config,      \* the configuration source on disk
    edits,       \* times the operator rewrote the configuration
    live,        \* addresses of buffers handed out and not freed
    aborted,     \* the process was terminated by a panic
    calls        \* calls started so far

vars == <<pc, op, req, response, result, parses, attempts, relays, seen, smtp,
          cellState, cellValue, initFn, configReads, config, edits, live,
          aborted, calls>>

lazyVars == <<cellState, cellValue, initFn, configReads>>
ghostVars == <<parses, attempts, relays, seen, smtp>>

NoResult == [kind |-> "none", ptr |-> NULL, text |-> [status |-> "", message |-> "", detail |-> ""], cause |-> ""]
NoResponse == [status |-> "", message |-> "", detail |-> ""]
NullResult == [kind |-> "null", ptr |-> NULL, text |-> [status |-> "", message |-> "", detail |-> ""], cause |-> ""]


\* ------------------------------------------------------- pure functions
\* The local response as sendmail creates it.
InitResponse_success == [status |-> "success", message |-> "Internal plugin error", detail |-> ""]

InitResponse == [status |-> "error", message |-> "Internal plugin error", detail |-> ""]

\* The condition of the if over headers.get of content-type: TRUE when the
\* call returns at once.
ContentTypeRejected_prefix(ct) == ct = "<absent>" \/ ct \notin {JsonType, "application/json; charset=utf-8"}

ContentTypeRejected(ct) == IF ct = "<absent>" THEN TRUE ELSE ct # JsonType

ContentTypeMessage(r, ct) ==
    IF ct = "<absent>"
    THEN [r EXCEPT !.message = "No content type"]
    ELSE [r EXCEPT !.message = "Invalid content type", !.detail = ct]

\* serde_json::from_str::<Mail>: every one of from, to, subject, message
\* is a required key.
Decode(body) ==
    IF body.kind = "mail"
    THEN [ok |-> TRUE, mail |-> body.mail, error |-> ""]
    ELSE [ok |-> FALSE, mail |-> GoodMail,
          error |-> IF body.kind = "no_subject_key" THEN "missing field subject"
                    ELSE "expected value"]

\* The vec! of (field, message) pairs sendmail loops over.
FieldChecks_swapped(mail) ==
    << <<mail.to, "No to address">>, <<mail.from, "No from address">>,
       <<mail.subject, "No subject">>, <<mail.message, "No message">> >>

FieldChecks(mail) ==
    << <<mail.from, "No from address">>, <<mail.to, "No to address">>,
       <<mail.subject, "No subject">>, <<mail.message, "No message">> >>

IsEmpty(s) == s = ""

\* The for loop: the message of the first pair, from index i on, whose
\* field is empty, or the empty string when the loop ends without returning.
RECURSIVE FirstEmptyFrom(_, _)
FirstEmptyFrom(checks, i) ==
    IF i > Len(checks) THEN ""
    ELSE IF IsEmpty(checks[i][1]) THEN checks[i][2]
    ELSE FirstEmptyFrom(checks, i + 1)

Validate_skipsLast(mail) == FirstEmptyFrom(SubSeq(FieldChecks(mail), 1, 3), 1)

Validate(mail) == FirstEmptyFrom(FieldChecks(mail), 1)

\* str::parse::<Mailbox>: Ok only for a well-formed address.
ParsesAsMailbox(s) == s = "a@x.com"

\* The pointer test at the top of sendmail.
NullArguments_headersOnly(r) == r.headersNull

NullArguments(r) == r.headersNull \/ r.bodyNull

\* The heap of CString buffers: into_raw leaks a fresh allocation to the
\* caller, from_raw followed by drop gives it back.
FreshAddrs(heap) == Addrs \ heap

IntoRaw_dropped(heap, a) == heap

IntoRaw(heap, a) == heap \cup {a}

Release(heap, ptr) == IF ptr = NULL THEN heap ELSE heap \ {ptr}

\* ------------------------------------------------------------- fragments
Running == ~aborted

\* to_c_response(&r) followed by return: one buffer at a fresh address.
ReturnBuffer(t, r) ==
    \E a \in FreshAddrs(live) :
        /\ live' = IntoRaw(live, a)
        /\ result' = [result EXCEPT ![t] =
               [kind |-> "buf", ptr |-> a, text |-> r, cause |-> ""]]
        /\ pc' = [pc EXCEPT ![t] = "idle"]

\* A panic inside an extern C function.  Toolchains from 1.81 on abort
\* the process; on older ones unwinding out of the function is undefined
\* and in practice reaches the host's frames, so both outcomes are kept.
Panic(t, why) ==
    /\ result' = [result EXCEPT ![t] =
           [kind |-> "panic", ptr |-> NULL, text |-> response[t], cause |-> why]]
    /\ pc' = [pc EXCEPT ![t] = "idle"]
    /\ \E a \in BOOLEAN : aborted' = a


\* What Option::take leaves in the Lazy's init slot.
AfterTake_kept(f) == f

AfterTake(f) == FALSE

\* Whether the initializer gets through: PLUGINS_DIR is a directory, the
\* config file exists, opens and holds the three settings.
ConfigUsable_lenient(c) == c.fault \in {"", "malformed_json"}

ConfigUsable(c) == c.fault = ""

\* serde_json::from_reader::<SmtpSettings> on a well-formed file.
ParseConfig(c) == [username |-> c.json.username, password |-> c.json.password, server |-> c.json.server]

StartCall(t, name, r) ==
    /\ Running
    /\ pc[t] = "idle"
    /\ calls < MaxCalls
    /\ calls' = calls + 1
    /\ op' = [op EXCEPT ![t] = name]
    /\ req' = [req EXCEPT ![t] = r]
    /\ parses' = [parses EXCEPT ![t] = 0]
    /\ attempts' = [attempts EXCEPT ![t] = 0]
    /\ relays' = [relays EXCEPT ![t] = 0]
    /\ seen' = [seen EXCEPT ![t] = NoSettings]
    /\ smtp' = [smtp EXCEPT ![t] = "none"]

\* ---------------------------------------------------------------- actions
Init ==
    /\ pc = [t \in Threads |-> "idle"]
    /\ op = [t \in Threads |-> "none"]
    /\ req = [t \in Threads |-> NoRequest]
    /\ response = [t \in Threads |-> NoResponse]
    /\ result = [t \in Threads |-> NoResult]
    /\ parses = [t \in Threads |-> 0]
    /\ attempts = [t \in Threads |-> 0]
    /\ relays = [t \in Threads |-> 0]
    /\ seen = [t \in Threads |-> NoSettings]
    /\ smtp = [t \in Threads |-> "none"]
    /\ cellState = "INCOMPLETE"
    /\ cellValue = NoSettings
    /\ initFn = TRUE
    /\ configReads = 0
    /\ config \in Configs
    /\ edits = 0
    /\ live = {}
    /\ aborted = FALSE
    /\ calls = 0

\* sendmail, from its entry to the creation of the local response.
SendmailEntry(t, r) ==
    /\ StartCall(t, "sendmail", r)
    /\ IF NullArguments(r)
       THEN /\ result' = [result EXCEPT ![t] = NullResult]
            /\ response' = [response EXCEPT ![t] = NoResponse]
            /\ pc' = pc
       ELSE /\ result' = [result EXCEPT ![t] = NoResult]
            /\ response' = [response EXCEPT ![t] = InitResponse]
            /\ pc' = [pc EXCEPT ![t] = "ctype"]
    /\ UNCHANGED <<lazyVars, config, edits, live, aborted>>

\* The content-type test.
CheckContentType(t) ==
    /\ Running
    /\ pc[t] = "ctype"
    /\ IF ContentTypeRejected(req[t].ctype)
       THEN /\ response' = [response EXCEPT ![t] = ContentTypeMessage(@, req[t].ctype)]
            /\ ReturnBuffer(t, response'[t])
       ELSE /\ pc' = [pc EXCEPT ![t] = "parse"]
            /\ UNCHANGED <<response, result, live>>
    /\ UNCHANGED <<op, req, ghostVars, lazyVars, config, edits, aborted, calls>>

\* CStr::from_ptr(body) and serde_json::from_str.
ParseBody(t) ==
    /\ Running
    /\ pc[t] = "parse"
    /\ parses' = [parses EXCEPT ![t] = @ + 1]
    /\ IF Decode(req[t].body).ok
       THEN /\ pc' = [pc EXCEPT ![t] = "validate"]
            /\ UNCHANGED <<response, result, live>>
       ELSE /\ response' = [response EXCEPT ![t] =
                   [@ EXCEPT !.message = "Invalid JSON", !.detail = Decode(req[t].body).error]]
            /\ ReturnBuffer(t, response'[t])
    /\ UNCHANGED <<op, req, attempts, relays, seen, smtp, lazyVars, config, edits, aborted, calls>>

\* The loop over the four required fields.
ValidateFields(t) ==
    /\ Running
    /\ pc[t] = "validate"
    /\ LET missing == Validate(Decode(req[t].body).mail) IN
       IF missing # ""
       THEN /\ response' = [response EXCEPT ![t] = [@ EXCEPT !.message = missing]]
            /\ ReturnBuffer(t, response'[t])
       ELSE /\ pc' = [pc EXCEPT ![t] = "compose"]
            /\ UNCHANGED <<response, result, live>>
    /\ UNCHANGED <<op, req, ghostVars, lazyVars, config, edits, aborted, calls>>

\* send_via_gmail: Message::builder() ... .unwrap().
Compose(t) ==
    /\ Running
    /\ pc[t] = "compose"
    /\ LET mail == Decode(req[t].body).mail IN
       IF ParsesAsMailbox(mail.from) /\ ParsesAsMailbox(mail.to)
       THEN /\ pc' = [pc EXCEPT ![t] = "force"]
            /\ UNCHANGED <<result, aborted>>
       ELSE Panic(t, "address")
    /\ UNCHANGED <<op, req, response, ghostVars, lazyVars, config, edits, live, calls>>

\* send_via_gmail: the first dereference of SMTP_CLIENT.  A thread that
\* finds the cell RUNNING waits for the initializing thread.
LazyForce(t) ==
    /\ Running
    /\ pc[t] = "force"
    /\ \/ /\ cellState = "COMPLETE"
          /\ seen' = [seen EXCEPT ![t] = cellValue]
          /\ pc' = [pc EXCEPT ![t] = "relay"]
          /\ UNCHANGED cellState
       \/ /\ cellState = "INCOMPLETE"
          /\ cellState' = "RUNNING"
          /\ pc' = [pc EXCEPT ![t] = "init"]
          /\ UNCHANGED seen
    /\ UNCHANGED <<op, req, response, result, parses, attempts, relays, smtp,
                   cellValue, initFn, configReads, config, edits, live, aborted, calls>>

\* The closure given to Lazy::new, run by the thread that won the cell.
LazyInit(t) ==
    /\ Running
    /\ pc[t] = "init"
    /\ IF ~initFn
       THEN /\ Panic(t, "lazy_poisoned")
            /\ cellState' = "INCOMPLETE"
            /\ UNCHANGED <<cellValue, initFn, configReads>>
       ELSE /\ initFn' = AfterTake(initFn)
            /\ configReads' = configReads + 1
            /\ IF ~ConfigUsable(config)
               THEN /\ Panic(t, config.fault)
                    /\ cellState' = "INCOMPLETE"
                    /\ UNCHANGED cellValue
               ELSE /\ cellValue' = ParseConfig(config)
                    /\ cellState' = "COMPLETE"
                    /\ pc' = [pc EXCEPT ![t] = "force"]
                    /\ UNCHANGED <<result, aborted>>
    /\ UNCHANGED <<op, req, response, ghostVars, config, edits, live, calls>>

\* send_via_gmail: Credentials::new and SmtpTransport::relay(..).unwrap().
RelaySetup(t) ==
    /\ Running
    /\ pc[t] = "relay"
    /\ relays' = [relays EXCEPT ![t] = @ + 1]
    /\ \E o \in {"ok", "tls_error"} :
          IF o = "ok"
          THEN /\ pc' = [pc EXCEPT ![t] = "send"]
               /\ UNCHANGED <<result, aborted>>
          ELSE Panic(t, "relay_setup")
    /\ UNCHANGED <<op, req, response, parses, attempts, seen, smtp, lazyVars,
                   config, edits, live, calls>>

\* mailer.send(&email), the match on its result and the final to_c_response.
Send(t) ==
    /\ Running
    /\ pc[t] = "send"
    /\ attempts' = [attempts EXCEPT ![t] = @ + 1]
    /\ \E o \in SmtpOutcomes :
          /\ smtp' = [smtp EXCEPT ![t] = o]
          /\ response' = [response EXCEPT ![t] =
                 IF o = "ok"
                 THEN [status |-> "success", message |-> "Email sent successfully", detail |-> "250 OK"]
                 ELSE [@ EXCEPT !.message = "Failed to send email", !.detail = o]]
          /\ ReturnBuffer(t, response'[t])
    /\ UNCHANGED <<op, req, parses, relays, seen, lazyVars, config, edits, aborted, calls>>

\* about: the plugin's description in a new buffer.
About(t) ==
    /\ StartCall(t, "about", NoRequest)
    /\ response' = [response EXCEPT ![t] = NoResponse]
    /\ ReturnBuffer(t, [status |-> "", message |-> "Name: arp-gmail", detail |-> "0.1.0"])
    /\ UNCHANGED <<lazyVars, config, edits, aborted>>

\* routes: the route table in a new buffer.
Routes(t) ==
    /\ StartCall(t, "routes", NoRequest)
    /\ response' = [response EXCEPT ![t] = NoResponse]
    /\ ReturnBuffer(t, [status |-> "", message |-> "routes", detail |-> "/sendmail /about"])
    /\ UNCHANGED <<lazyVars, config, edits, aborted>>

\* free: the host gives back a buffer it holds, or passes null.
Free(t, ptr) ==
    /\ Running
    /\ pc[t] = "idle"
    /\ ptr \in live \cup {NULL}
    /\ live' = Release(live, ptr)
    /\ op' = [op EXCEPT ![t] = "free"]
    /\ result' = [result EXCEPT ![t] = [NoResult EXCEPT !.kind = "void", !.ptr = ptr]]
    /\ UNCHANGED <<pc, req, response, ghostVars, lazyVars, config, edits, aborted, calls>>

\* The operator replaces a well-formed configuration file by another one.
EditConfig ==
    /\ Running
    /\ edits < MaxEdits
    /\ config \in GoodConfigs
    /\ \E c \in GoodConfigs \ {config} : config' = c
    /\ edits' = edits + 1
    /\ UNCHANGED <<pc, op, req, response, result, ghostVars, lazyVars, live, aborted, calls>>

\* The steps of the host's threads T sending requests from R.
Step(T, R) ==
    \/ \E t \in T, r \in R : SendmailEntry(t, r)
    \/ \E t \in T : CheckContentType(t)
    \/ \E t \in T : ParseBody(t)
    \/ \E t \in T : ValidateFields(t)
    \/ \E t \in T : Compose(t)
    \/ \E t \in T : LazyForce(t)
    \/ \E t \in T : LazyInit(t)
    \/ \E t \in T : RelaySetup(t)
    \/ \E t \in T : Send(t)
    \/ \E t \in T : About(t)
    \/ \E t \in T : Routes(t)
    \/ \E t \in T, ptr \in Addrs \cup {NULL} : Free(t, ptr)
    \/ EditConfig

\* One host thread, every request.
Next == Step({1}, Requests)

Spec == Init /\ [][Next]_vars

\* Several host threads, each making its first sendmail call: a request
\* that reaches the credential store and one that is refused before it.
ThreadRequests ==
    {r \in Requests :
        \/ ~r.headersNull /\ ~r.bodyNull /\ r.ctype = "<absent>"
        \/ ~r.headersNull /\ ~r.bodyNull /\ r.ctype = JsonType /\ r.body = GoodBody}

NextThreads ==
    \/ \E t \in Threads, r \in ThreadRequests : op[t] = "none" /\ SendmailEntry(t, r)
    \/ \E t \in Threads : CheckContentType(t)
    \/ \E t \in Threads : ParseBody(t)
    \/ \E t \in Threads : ValidateFields(t)
    \/ \E t \in Threads : Compose(t)
    \/ \E t \in Threads : LazyForce(t)
    \/ \E t \in Threads : LazyInit(t)
    \/ \E t \in Threads : RelaySetup(t)
    \/ \E t \in Threads : Send(t)
    \/ EditConfig

SpecThreads == Init /\ [][NextThreads]_vars


\* ================================================================ claims
\* What the claims say of a request, written from the request alone.
NonNull(r) == ~r.headersNull /\ ~r.bodyNull
JsonMail(r) == NonNull(r) /\ r.ctype = "application/json" /\ r.body.kind = "mail"
Required(r) == <<r.body.mail.from, r.body.mail.to, r.body.mail.subject, r.body.mail.message>>
AllPresent(r) == \A i \in 1..4 : Required(r)[i] # ""
MissingNames == <<"No from address", "No to address", "No subject", "No message">>
FirstMissing(r) == CHOOSE i \in 1..4 : Required(r)[i] = "" /\ \A j \in 1..(i - 1) : Required(r)[j] # ""
GoodAddresses(r) == r.body.mail.from = "a@x.com" /\ r.body.mail.to = "a@x.com"

Finished(t) == op[t] = "sendmail" /\ pc[t] = "idle" /\ result[t].kind # "none"
Answered(t) == Finished(t) /\ result[t].kind = "buf"
Untouched(t) == seen[t] = NoSettings /\ relays[t] = 0 /\ attempts[t] = 0

\* C1: a sendmail call with a JSON content type and a body that decodes as
\* a Mail with an empty required field is answered with status error and
\* the message of the first empty field in the order from, to, subject,
\* message, whatever the later fields hold.
C1_FirstMissingField ==
    \A t \in Threads :
        (Finished(t) /\ JsonMail(req[t]) /\ ~AllPresent(req[t])) =>
            /\ result[t].kind = "buf"
            /\ result[t].text.status = "error"
            /\ result[t].text.message = MissingNames[FirstMissing(req[t])]

C1_Witness ==
    \E t \in Threads :
        /\ Finished(t) /\ JsonMail(req[t])
        /\ req[t].body.mail.from # "" /\ req[t].body.mail.to = ""
        /\ req[t].body.mail.subject = "" /\ req[t].body.mail.message # ""
        /\ result[t].text.message = "No to address"

\* C2: a sendmail call whose content-type header is absent or is not
\* exactly application/json never reaches the JSON parse or any later
\* step, and what it returns is an error response.
C2_NoParseOnBadContentType ==
    \A t \in Threads :
        (op[t] = "sendmail" /\ NonNull(req[t]) /\ req[t].ctype # "application/json") =>
            /\ parses[t] = 0
            /\ Untouched(t)
            /\ pc[t] \in {"ctype", "idle"}
            /\ pc[t] = "idle" => /\ result[t].kind = "buf"
                                 /\ result[t].text.status = "error"
                                 /\ result[t].text.message \in {"No content type", "Invalid content type"}

C2_Witness ==
    \E t \in Threads :
        /\ Answered(t)
        /\ req[t].ctype = "application/json; charset=utf-8"
        /\ result[t].text.message = "Invalid content type"
        /\ parses[t] = 0

\* C3: a sendmail response has status success only when the SMTP
\* submission returned success; every other response has status error;
\* no response has a third status.
C3_SuccessOnlyOnSubmission ==
    \A t \in Threads :
        Answered(t) =>
            /\ result[t].text.status \in {"success", "error"}
            /\ result[t].text.status = "success" <=> smtp[t] = "ok"

C3_Witness ==
    \E t \in Threads :
        Answered(t) /\ result[t].text.status = "success" /\ smtp[t] = "ok"

\* C4: a request that passes the content-type test, decoding and the
\* non-empty test, and whose from or to is no mail address, is answered
\* with an error response; the call does not panic.
C4_InvalidAddressAnswered ==
    \A t \in Threads :
        (Finished(t) /\ JsonMail(req[t]) /\ AllPresent(req[t]) /\ ~GoodAddresses(req[t])) =>
            /\ result[t].kind = "buf"
            /\ result[t].text.status = "error"

\* C5: a sendmail call submits at most once, and an error of relay setup,
\* of the network or of authentication comes back as an error response
\* that carries the transport error; it does not panic.
C5_TransportErrorsAnswered ==
    \A t \in Threads :
        /\ attempts[t] <= 1
        /\ (Finished(t) /\ relays[t] > 0) =>
              /\ result[t].kind = "buf"
              /\ smtp[t] # "ok" => /\ result[t].text.status = "error"
                                   /\ result[t].text.message = "Failed to send email"
                                   /\ result[t].text.detail = smtp[t]

\* C6: with several threads making their first sendmail call at once,
\* the configuration is read at most once, and every thread that got past
\* the initialization holds the one value of the cell, also after the
\* configuration file has changed.
C6_InitializedOnce ==
    /\ configReads <= 1
    /\ \A t \in Threads :
          seen[t] # NoSettings => cellState = "COMPLETE" /\ seen[t] = cellValue
    /\ \A t \in Threads : pc[t] \in {"relay", "send"} => seen[t] # NoSettings

C6_Witness ==
    \E t, u \in Threads :
        /\ t # u
        /\ seen[t] # NoSettings /\ seen[u] = seen[t]
        /\ config.json # cellValue
        /\ configReads = 1


\* A step in which thread t starts a call (the other threads keep theirs).
CallStarts(t) ==
    /\ calls' = calls + 1
    /\ pc[t] = "idle"
    /\ \A u \in Threads \ {t} : op'[u] = op[u] /\ req'[u] = req[u] /\ result'[u] = result[u]

\* A step in which thread t returns a text.
ReturnsText(t) == result'[t] # result[t] /\ result'[t].kind = "buf"

\* C7: over sendmail, about, routes and free calls, a call that returns a
\* text allocates exactly one buffer, at an address no live buffer has; a
\* buffer appears only by such a return and disappears only by a free of
\* that buffer; free of null leaves the live buffers as they are.
C7_BufferOwnership ==
    [][ /\ \A t \in Threads :
              ReturnsText(t) =>
                  /\ result'[t].ptr \notin live
                  /\ result'[t].ptr # NULL
                  /\ live' = live \cup {result'[t].ptr}
                  /\ Cardinality(live') = Cardinality(live) + 1
        /\ \A a \in live' \ live :
              \E t \in Threads : ReturnsText(t) /\ result'[t].ptr = a
        /\ \A a \in live \ live' :
              \E t \in Threads : op'[t] = "free" /\ result'[t].kind = "void" /\ result'[t].ptr = a
        /\ \A t \in Threads :
              (result'[t].kind = "void" /\ result'[t].ptr = NULL /\ result'[t] # result[t]) =>
                  live' = live
      ]_vars

C7_Witness ==
    \E t \in Threads :
        /\ Cardinality(live) = 2
        /\ op[t] = "free" /\ result[t].kind = "void" /\ result[t].ptr = NULL

\* C8: a sendmail call with a null headers or body handle returns null in
\* its first step: no response buffer, no use of the handles, no
\* credentials, no relay.
C8_NullInNullOut ==
    [][ \A t \in Threads :
            (CallStarts(t) /\ op'[t] = "sendmail"
                /\ (req'[t].headersNull \/ req'[t].bodyNull)) =>
                /\ pc'[t] = "idle"
                /\ result'[t].kind = "null" /\ result'[t].ptr = NULL
                /\ live' = live
                /\ parses'[t] = 0 /\ seen'[t] = NoSettings
                /\ relays'[t] = 0 /\ attempts'[t] = 0
                /\ UNCHANGED <<cellState, cellValue, initFn, configReads>>
      ]_vars

C8_Witness ==
    \E t \in Threads :
        /\ op[t] = "sendmail" /\ pc[t] = "idle"
        /\ req[t].bodyNull /\ ~req[t].headersNull
        /\ result[t].kind = "null"
        /\ live # {}

C10_ValidateBeforeDispatch ==
    \A t \in Threads :
        /\ (op[t] = "sendmail" /\ (~Untouched(t) \/ pc[t] \in {"force", "init", "relay", "send"})) =>
              /\ JsonMail(req[t]) /\ AllPresent(req[t])
              /\ parses[t] = 1
        /\ (Answered(t) /\ result[t].text.message \in
                {"No content type", "Invalid content type", "Invalid JSON",
                 "No from address", "No to address", "No subject", "No message"}) =>
              Untouched(t)
        /\ (Answered(t) /\ ~(JsonMail(req[t]) /\ AllPresent(req[t]))) =>
              /\ Untouched(t)
              /\ result[t].text.status = "error"

C10_Witness ==
    \E t \in Threads :
        /\ Answered(t) /\ attempts[t] = 1 /\ relays[t] = 1
        /\ seen[t] \in Settings
        /\ JsonMail(req[t]) /\ AllPresent(req[t])
        /\ parses[t] = 1

====
